---- MODULE Spec2Model ----
(***************************************************************************)
(* ImageShareVault: moderation, album and authorization core.              *)
(*                                                                         *)
(* The relational store (users, images, albums, album_images) is the       *)
(* state; every HTTP handler of the route layer is one action that runs    *)
(* the route's guards and the storage method it calls.  better-sqlite3 is  *)
(* synchronous: inside one handler every `await` of a storage method       *)
(* awaits an already settled promise, and its continuation runs in the     *)
(* same microtask drain, before the event loop takes up another request.   *)
(* The store is therefore changed one whole handler at a time.             *)
(***************************************************************************)
EXTENDS Integers, Sequences, FiniteSets, TLC

\* ---------------------------------------------------------------- bounds
MaxImages == 1     \* uploads per behaviour
MaxAlbums == 1     \* albums created per behaviour
MaxTime   == 1     \* last instant of the wall clock
MaxTokens == 3     \* verification tokens issued per behaviour
MaxUsers  == 4     \* rows of the users table
TicksPerDay == 1   \* instants of the wall clock per calendar day
NumStored == 3     \* approved images already stored when InitCover starts
MaxInFlight == 2   \* requests of one kind that are in progress at a time

\* ------------------------------------------------------------- constants
Null      == 0          \* SQL NULL / JS null for an integer column
NullText  == "NULL"     \* SQL NULL for a text column
Undefined == [undefined |-> TRUE]   \* JS undefined: no such row
Omitted   == "<undefined>"          \* JS undefined: optional text field left out
NoUser    == 0          \* request without an authenticated session
NullTime  == -1         \* SQL NULL for users.banned_at: no instant of Times

\* User 1 is the account createDefaultAdmin inserts, user 2 a registered one.
UserIds   == 1..2
Actors    == UserIds \cup {NoUser}
ImageIds  == 1..MaxImages
AlbumIds  == 1..MaxAlbums
Times     == 0..MaxTime

Statuses  == {"pending", "approved", "rejected"}
Decisions == {"approved", "rejected"}
Reasons   == {"", "spam"}
Titles    == {"t1"}

VARIABLES users, sessions, hashing, inflight, issued, images, decidedAt,
          albums, albumImages, nextAlbumId, now, last

vars == <<users, sessions, hashing, inflight, issued, images, decidedAt,
          albums, albumImages, nextAlbumId, now, last>>

\* --------------------------------------------------------------- helpers

\* decidedAt records history, not stored data: for each image the instant
\* of the last decision made on it, NullTime while it was never decided.
\* issued records history too: the users the verification tokens were
\* issued for, in the order of issue; token k is the k-th token issued.

\* new Date().toISOString(): the wall clock read by a handler; it has not
\* gone back since the previous read and may still show the same instant.
ClockReads == {t \in Times : t >= now /\ t <= now + 1}

\* The response to the handled request: the handler, the session's user,
\* the status and message sent, and the album and image the handler had
\* looked up when it answered; failed holds the users whose notification
\* was not delivered while the request was handled, body the numbers a
\* handler sent back.
Response(op, actor, albumId, imageId, status, message) ==
    [op |-> op, actor |-> actor, albumId |-> albumId, imageId |-> imageId,
     status |-> status, message |-> message, failed |-> {}, body |-> <<>>]

NoRequest == Response("none", NoUser, Null, Null, 0, "")

\* The requests on their way through the server: received are the role
\* requests read from their sockets and not yet handled, checked those
\* that passed the isAdmin middleware and whose route has not run yet,
\* comparing the logins that wait for the scrypt of comparePasswords.
Idle == [received |-> {}, checked |-> {}, comparing |-> {}]

\* req.isAuthenticated(): the request carries a session that login bound
\* to a user id, and deserializeUser found that user in the users table.
isAuthenticated(actor) == actor \in sessions /\ actor \in DOMAIN users

\* storage.getImageById
getImageById(id) == IF id \in 1..Len(images) THEN images[id] ELSE Undefined

\* storage.getAlbumById (the album row; its image list is only sent back)
getAlbumById(id) == IF id \in DOMAIN albums THEN albums[id] ELSE Undefined

\* ----------------------------------------------------------- users rows
\* hashPassword: scrypt of the password under a salt, kept with the salt.
\* randomBytes(16) is one salt per stored password; the model names it by
\* the password it was drawn for.
scrypt(password, salt) == <<"scrypt", password, salt>>
hashPassword(password) ==
    [hash |-> scrypt(password, "salt-" \o password), salt |-> "salt-" \o password]

\* comparePasswords: hash the supplied password under the stored salt.
comparePasswords(supplied, stored) == scrypt(supplied, stored.salt) = stored.hash

\* storage.createUser: INSERT (name, email, password, is_verified); the
\* email is trimmed, every other column takes its default.
createUser(email, password, isVerified) ==
    [email |-> email, password |-> password, isVerified |-> isVerified,
     verificationToken |-> Null,
     isModerator |-> FALSE, isAdmin |-> FALSE,
     isBanned |-> FALSE, banReason |-> NullText,
     bannedBy |-> Null, bannedAt |-> NullTime]

\* createDefaultAdmin: the row inserted with is_verified, is_moderator and
\* is_admin set.
DefaultAdmin ==
    [createUser("admin@example.com", hashPassword("password123"), TRUE)
        EXCEPT !.isModerator = TRUE, !.isAdmin = TRUE]

\* The users table when the handlers start: the default admin and one
\* account registered through POST /api/register (auto-verified).
StoredUsers ==
    (1 :> DefaultAdmin) @@ (2 :> createUser("bob@x.io", hashPassword("bobsecret"), TRUE))

\* String.prototype.toLowerCase on the e-mail addresses requests carry.
toLowerCase(e) ==
    CASE e = "Bob@x.io" -> "bob@x.io"
      [] e = "Carol@x.io" -> "carol@x.io"
      [] OTHER -> e

\* String.prototype.trim on the e-mail addresses requests carry.
trim(e) ==
    CASE e = " " -> ""
      [] e = "carol@x.io " -> "carol@x.io"
      [] OTHER -> e

\* SQLite LOWER(): folds the ASCII letters, which are all the letters of
\* these addresses.
LOWER(e) == toLowerCase(e)

\* storage.getUserByEmail: the id of the row found, NoUser when none.
\* .get() returns the first row of the scan, the one with the least id.
getUserByEmail(email) ==
    LET normalizedEmail == toLowerCase(trim(email))
        found == {u \in DOMAIN users :
                    IF normalizedEmail = "" THEN users[u].email = ""
                    ELSE LOWER(users[u].email) = normalizedEmail}
    IN  IF found = {} THEN NoUser
        ELSE CHOOSE u \in found : \A v \in found : u <= v

\* ------------------------------------------------------------------ Init
\* After construction: createDefaultAdmin has inserted user 1 as verified
\* moderator and admin; user 2 is a registered account; both have logged
\* in.
Init ==
    /\ users = StoredUsers
    /\ sessions = UserIds
    /\ hashing = {}
    /\ inflight = Idle
    /\ issued = <<>>
    /\ images = <<>>
    /\ decidedAt = <<>>
    /\ albums = <<>>
    /\ albumImages = <<>>
    /\ nextAlbumId = 1
    /\ now = 0
    /\ last = NoRequest

\* ------------------------------------------------- POST /api/images
createImage_AsReviewed(userId, t) ==
    [status |-> "approved", userId |-> userId, reviewedBy |-> userId,
     rejectionReason |-> NullText, isPublic |-> TRUE, updatedAt |-> t]

\* storage.createImage: INSERT (title, description, filename, user_id);
\* status, is_public, reviewed_by, rejection_reason, updated_at take the
\* column defaults.
createImage(userId, t) ==
    [status |-> "pending", userId |-> userId, reviewedBy |-> Null,
     rejectionReason |-> NullText, isPublic |-> TRUE, updatedAt |-> t]

\* A stored e-mail address that is not blank: the guard before sendEmail.
HasEmail(user) == user.email # "" /\ trim(user.email) # ""

\* storage.getModerators, filtered as the upload route does: the moderators
\* a notification is sent to.
moderatorsWithEmail ==
    {u \in DOMAIN users : users[u].isModerator /\ HasEmail(users[u])}

AfterNotification_Fails(response, undelivered) ==
    IF undelivered = {} THEN response
    ELSE [response EXCEPT !.status = 500, !.failed = undelivered]

\* sendEmail returns false when the transport fails and the routes catch
\* whatever the notification block throws: the handler goes on to send the
\* response it had prepared.
AfterNotification(response, undelivered) ==
    [response EXCEPT !.failed = undelivered]

\* The upload requests: with or without the file part, and with any of
\* these keys in the JSON of the data part besides title and description.
UploadKeys == {"status", "userId", "isPublic", "reviewedBy", "rejectionReason"}
UploadBodies == {[file |-> f, has |-> h] : f \in BOOLEAN, h \in SUBSET UploadKeys}
PlainUpload == [file |-> TRUE, has |-> {}]

\* dataObject: the route copies title and description out of the parsed
\* data part and adds the filename multer chose.
dataObject(body) ==
    (body.has \cap {"title", "description"}) \cup {"title", "filename"}

\* insertImageSchema.parse: the omitted keys are not part of the object
\* schema, and zod strips the keys it does not know.
insertImageSchema(data) ==
    data \ {"id", "status", "userId", "reviewedBy", "rejectionReason",
            "isPublic", "createdAt", "updatedAt"}

\* failed: the users the mail transport cannot reach during this request.
\* The response keeps the keys the body carried and the keys of the
\* validated data in body.
Submit(actor, body, failed) ==
    /\ Len(images) < MaxImages
    /\ IF ~isAuthenticated(actor)
       THEN /\ last' = [Response("submit", actor, Null, Null, 401, "Unauthorized")
                           EXCEPT !.body = <<body.has>>]
            /\ UNCHANGED <<images, decidedAt, now>>
       ELSE IF ~body.file
       THEN /\ last' = [Response("submit", actor, Null, Null, 400,
                                 "No image file provided")
                           EXCEPT !.body = <<body.has>>]
            /\ UNCHANGED <<images, decidedAt, now>>
       ELSE \E t \in ClockReads :
            /\ now' = t
            /\ images' = Append(images, createImage(actor, t))
            /\ decidedAt' = Append(decidedAt, NullTime)
            /\ last' = AfterNotification(
                          [Response("submit", actor, Null, Len(images) + 1, 201, "")
                              EXCEPT !.body = <<body.has,
                                               insertImageSchema(dataObject(body))>>],
                          failed \cap moderatorsWithEmail)
    /\ UNCHANGED <<users, sessions, hashing, inflight, issued, albums, albumImages, nextAlbumId>>

\* ------------------------------------- PATCH /api/images/:id/status
CanModerate_AsAtLogin(actor) ==
    isAuthenticated(actor) /\ StoredUsers[actor].isModerator

CanModerate_NoRoleCheck(actor) == isAuthenticated(actor)

\* The route guard: passport has reloaded req.user from the users table.
CanModerate(actor) == isAuthenticated(actor) /\ users[actor].isModerator

\* storage.updateImageStatus: one UPDATE ... WHERE id = ?
updateImageStatus(image, status, moderatorId, rejectionReason, t) ==
    [image EXCEPT !.status = status,
                  !.reviewedBy = moderatorId,
                  !.rejectionReason = IF rejectionReason \in {Omitted, ""}
                                      THEN NullText ELSE rejectionReason,
                  !.updatedAt = t]

\* failed: the users the mail transport cannot reach during this request;
\* the notification goes to the image's owner.
Decide(actor, imageId, status, rejectionReason, failed) ==
    /\ IF ~CanModerate(actor)
       THEN /\ last' = Response("decide", actor, Null, Null, 403, "Forbidden")
            /\ UNCHANGED <<images, decidedAt, now>>
       ELSE IF getImageById(imageId) = Undefined
       THEN /\ last' = Response("decide", actor, Null, imageId, 404, "Image not found")
            /\ UNCHANGED <<images, decidedAt, now>>
       ELSE \E t \in ClockReads :
            /\ now' = t
            /\ images' = [images EXCEPT ![imageId] =
                   updateImageStatus(@, status, actor, rejectionReason, t)]
            /\ decidedAt' = [decidedAt EXCEPT ![imageId] = t]
            /\ last' = AfterNotification(
                          Response("decide", actor, Null, imageId, 200, status),
                          {u \in failed \cap {images[imageId].userId} :
                              u \in DOMAIN users /\ HasEmail(users[u])})
    /\ UNCHANGED <<users, sessions, hashing, inflight, issued, albums, albumImages, nextAlbumId>>

\* -------------------------------------- GET /api/moderation/stats
\* today.setHours(0, 0, 0, 0): the first instant of the day of t.
Midnight(t) == (t \div TicksPerDay) * TicksPerDay

\* storage.getModerationStats at instant t: the pending images, the
\* approved and the rejected ones with updated_at >= midnight.
getModerationStats(t) ==
    LET Count(st, since) ==
            Cardinality({i \in 1..Len(images) :
                           images[i].status = st /\ images[i].updatedAt >= since})
    IN  <<Count("pending", 0), Count("approved", Midnight(t)),
          Count("rejected", Midnight(t))>>

\* The route: pending, approvedToday and rejectedToday are sent in body.
GetModerationStats(actor) ==
    /\ IF ~CanModerate(actor)
       THEN /\ last' = Response("moderationStats", actor, Null, Null, 403, "Forbidden")
            /\ UNCHANGED now
       ELSE \E t \in ClockReads :
            /\ now' = t
            /\ last' = [Response("moderationStats", actor, Null, Null, 200, "")
                           EXCEPT !.body = getModerationStats(t)]
    /\ UNCHANGED <<users, sessions, hashing, inflight, issued, images, decidedAt, albums,
                   albumImages, nextAlbumId>>

\* --------------------------------- PATCH /api/images/:id/visibility
IsImageOwner_Anyone(image, userId) == TRUE

\* storage.updateImageVisibility: image.userId !== userId throws.
IsImageOwner(image, userId) == image.userId = userId

updateImageVisibility(image, isPublic, t) ==
    [image EXCEPT !.isPublic = isPublic, !.updatedAt = t]

UpdateVisibility(actor, imageId, isPublic) ==
    /\ IF ~isAuthenticated(actor)
       THEN /\ last' = Response("visibility", actor, Null, Null, 401, "Unauthorized")
            /\ UNCHANGED <<images, decidedAt, now>>
       ELSE IF getImageById(imageId) = Undefined
       THEN /\ last' = Response("visibility", actor, Null, imageId, 400,
                                "Error: Image not found")
            /\ UNCHANGED <<images, decidedAt, now>>
       ELSE IF ~IsImageOwner(getImageById(imageId), actor)
       THEN /\ last' = Response("visibility", actor, Null, imageId, 400,
                     "Error: You do not have permission to update this image")
            /\ UNCHANGED <<images, decidedAt, now>>
       ELSE \E t \in ClockReads :
            /\ now' = t
            /\ images' = [images EXCEPT ![imageId] =
                              updateImageVisibility(@, isPublic, t)]
            /\ UNCHANGED decidedAt
            /\ last' = Response("visibility", actor, Null, imageId, 200, "")
    /\ UNCHANGED <<users, sessions, hashing, inflight, issued, albums, albumImages, nextAlbumId>>

\* ------------------------------------------------ POST /api/albums
\* storage.createAlbum: is_public = (isPublic === false ? 0 : 1), no cover.
\* An album row is its user_id, title, cover_image_id and is_public; the
\* description (written like the title) and the two timestamps, which no
\* handler reads, are left out.
createAlbum(userId, title, isPublic) ==
    [userId |-> userId, title |-> title, coverImageId |-> Null,
     isPublic |-> isPublic]

CreateAlbum(actor, title, isPublic) ==
    /\ nextAlbumId <= MaxAlbums
    /\ IF ~isAuthenticated(actor)
       THEN /\ last' = Response("createAlbum", actor, Null, Null, 401, "Unauthorized")
            /\ UNCHANGED <<albums, nextAlbumId, now>>
       ELSE /\ albums' = albums @@ (nextAlbumId :> createAlbum(actor, title, isPublic))
            /\ nextAlbumId' = nextAlbumId + 1
            /\ last' = Response("createAlbum", actor, nextAlbumId, Null, 201, "")
            /\ UNCHANGED now
    /\ UNCHANGED <<users, sessions, hashing, inflight, issued, images, decidedAt, albumImages>>

\* ------------------------------------------- album methods of storage.ts
IsAlbumOwner_OrAdmin(album, userId) ==
    album.userId = userId \/ users[userId].isAdmin

\* album.userId !== userId throws in all four album mutations.
IsAlbumOwner(album, userId) == album.userId = userId

NotFoundMsg == "Error: Album not found"
ForbiddenMsg(verb) ==
    "Error: You do not have permission to " \o verb \o " this album"
ForeignKeyMsg == "SqliteError: FOREIGN KEY constraint failed"

\* The first two checks of updateAlbum, deleteAlbum, addImageToAlbum and
\* removeImageFromAlbum on the album that getAlbumById returned.
AlbumCheck(album, userId, verb) ==
    IF album = Undefined THEN NotFoundMsg
    ELSE IF ~IsAlbumOwner(album, userId) THEN ForbiddenMsg(verb)
    ELSE "ok"

\* SELECT id FROM album_images WHERE album_id = ? AND image_id = ?
ExistingEntry(rows, albumId, imageId) ==
    \E k \in 1..Len(rows) : rows[k].albumId = albumId /\ rows[k].imageId = imageId

IsApproved_NotRejected(image) == image.status # "rejected"

\* image.status !== 'approved' throws
IsApproved(image) == image.status = "approved"

SetCoverIfNull_Never(albs, albumId, imageId) == albs

\* UPDATE albums SET cover_image_id = ?, updated_at = ?
\*   WHERE id = ? AND cover_image_id IS NULL
SetCoverIfNull(albs, albumId, imageId) ==
    IF albumId \in DOMAIN albs /\ albs[albumId].coverImageId = Null
    THEN [albs EXCEPT ![albumId].coverImageId = imageId]
    ELSE albs

\* storage.addImageToAlbum: album and image are what getAlbumById and
\* getImageById returned.  album_images has no UNIQUE(album_id, image_id):
\* the SELECT before the INSERT is all that keeps a pair from a second row.
addImageToAlbum(actor, albumId, imageId, album, image) ==
    LET check == AlbumCheck(album, actor, "update")
        Fail(msg) == /\ last' = Response("addImageToAlbum", actor, albumId, imageId, 400, msg)
                     /\ UNCHANGED <<albums, albumImages, now>>
    IN  IF check # "ok"
        THEN /\ last' = Response("addImageToAlbum", actor, albumId, Null, 400, check)
             /\ UNCHANGED <<albums, albumImages, now>>
        ELSE IF image = Undefined THEN Fail("Error: Image not found")
        ELSE IF ~IsApproved(image)
             THEN Fail("Error: Only approved images can be added to albums")
        ELSE IF ExistingEntry(albumImages, albumId, imageId)
             THEN /\ last' = Response("addImageToAlbum", actor, albumId, imageId, 200, "")
                  /\ UNCHANGED <<albums, albumImages, now>>
        ELSE \E t \in ClockReads :
             /\ now' = t
             /\ albumImages' = Append(albumImages,
                    [albumId |-> albumId, imageId |-> imageId, addedAt |-> t])
             /\ albums' = IF album.coverImageId = Null
                          THEN SetCoverIfNull(albums, albumId, imageId)
                          ELSE albums
             /\ last' = Response("addImageToAlbum", actor, albumId, imageId, 200, "")

\* POST /api/albums/:id/images
AddImageToAlbum(actor, albumId, imageId) ==
    /\ IF ~isAuthenticated(actor)
       THEN /\ last' = Response("addImageToAlbum", actor, Null, Null, 401, "Unauthorized")
            /\ UNCHANGED <<albums, albumImages, now>>
       ELSE addImageToAlbum(actor, albumId, imageId,
                            getAlbumById(albumId), getImageById(imageId))
    /\ UNCHANGED <<users, sessions, hashing, inflight, issued, images, decidedAt, nextAlbumId>>

\* DELETE FROM album_images WHERE album_id = ? AND image_id = ?
DeleteRows(rows, albumId, imageId) ==
    SelectSeq(rows, LAMBDA r : ~(r.albumId = albumId /\ r.imageId = imageId))

FirstImage_Oldest(rows, albumId) ==
    {rows[k].imageId : k \in {j \in 1..Len(rows) :
        /\ rows[j].albumId = albumId
        /\ \A m \in 1..Len(rows) :
              rows[m].albumId = albumId => rows[m].addedAt >= rows[j].addedAt}}

\* SELECT image_id FROM album_images WHERE album_id = ?
\*   ORDER BY added_at DESC LIMIT 1
\* The rows the query may return: rows with equal added_at are in no
\* specified order.  Empty when the album has no row.
FirstImage(rows, albumId) ==
    {rows[k].imageId : k \in {j \in 1..Len(rows) :
        /\ rows[j].albumId = albumId
        /\ \A m \in 1..Len(rows) :
              rows[m].albumId = albumId => rows[m].addedAt <= rows[j].addedAt}}

\* storage.removeImageFromAlbum: album is what getAlbumById returned.
removeImageFromAlbum(actor, albumId, imageId, album) ==
    LET check == AlbumCheck(album, actor, "update")
        rows  == DeleteRows(albumImages, albumId, imageId)
    IN  IF check # "ok"
        THEN /\ last' = Response("removeImageFromAlbum", actor, albumId, Null, 400, check)
             /\ UNCHANGED <<albums, albumImages, now>>
        ELSE /\ albumImages' = rows
             /\ last' = Response("removeImageFromAlbum", actor, albumId, imageId, 200, "")
             /\ IF album.coverImageId = imageId
                THEN \E c \in IF FirstImage(rows, albumId) = {}
                              THEN {Null} ELSE FirstImage(rows, albumId) :
                     albums' = [albums EXCEPT ![albumId].coverImageId = c]
                ELSE UNCHANGED albums
             /\ UNCHANGED now

\* DELETE /api/albums/:albumId/images/:imageId
RemoveImageFromAlbum(actor, albumId, imageId) ==
    /\ IF ~isAuthenticated(actor)
       THEN /\ last' = Response("removeImageFromAlbum", actor, Null, Null, 401, "Unauthorized")
            /\ UNCHANGED <<albums, albumImages, now>>
       ELSE removeImageFromAlbum(actor, albumId, imageId, getAlbumById(albumId))
    /\ UNCHANGED <<users, sessions, hashing, inflight, issued, images, decidedAt, nextAlbumId>>

\* The bodies updateAlbumSchema accepts: each field present or left out
\* (description goes the way of title).  A field left out carries a
\* placeholder that updateAlbum never reads.
UpdateAlbumInputs ==
    {[has |-> h, title |-> ti, coverImageId |-> c, isPublic |-> p] :
        h \in SUBSET {"title", "coverImageId", "isPublic"},
        ti \in Titles, c \in 1..(Len(images) + 1), p \in BOOLEAN}

NormalInput(data) ==
    /\ "title" \notin data.has => data.title = "t1"
    /\ "coverImageId" \notin data.has => data.coverImageId = 1
    /\ "isPublic" \notin data.has => data.isPublic = TRUE

\* The SET list updateAlbum builds from the fields that are not undefined.
ApplyAlbumUpdate(row, data) ==
    [row EXCEPT
       !.title = IF "title" \in data.has THEN data.title ELSE @,
       !.coverImageId = IF "coverImageId" \in data.has THEN data.coverImageId ELSE @,
       !.isPublic = IF "isPublic" \in data.has THEN data.isPublic ELSE @]

\* albums.cover_image_id REFERENCES images(id), PRAGMA foreign_keys = ON
CoverReferenceHolds(data) ==
    "coverImageId" \in data.has => data.coverImageId \in 1..Len(images)

\* storage.updateAlbum: album is what getAlbumById returned.
updateAlbum(actor, albumId, data, album) ==
    LET check == AlbumCheck(album, actor, "update")
        Reply(status, msg) ==
            last' = Response("updateAlbum", actor, albumId,
                       IF "coverImageId" \in data.has THEN data.coverImageId ELSE Null,
                       status, msg)
    IN  IF check # "ok"
        THEN /\ last' = Response("updateAlbum", actor, albumId, Null, 400, check)
             /\ UNCHANGED <<albums, now>>
        ELSE IF data.has = {}
        THEN Reply(200, "") /\ UNCHANGED <<albums, now>>
        ELSE IF ~CoverReferenceHolds(data)
        THEN Reply(400, ForeignKeyMsg) /\ UNCHANGED <<albums, now>>
        ELSE /\ albums' = [albums EXCEPT ![albumId] = ApplyAlbumUpdate(@, data)]
             /\ Reply(200, "")
             /\ UNCHANGED now

\* PATCH /api/albums/:id
UpdateAlbum(actor, albumId, data) ==
    /\ IF ~isAuthenticated(actor)
       THEN /\ last' = Response("updateAlbum", actor, Null, Null, 401, "Unauthorized")
            /\ UNCHANGED <<albums, now>>
       ELSE updateAlbum(actor, albumId, data, getAlbumById(albumId))
    /\ UNCHANGED <<users, sessions, hashing, inflight, issued, images, decidedAt, albumImages, nextAlbumId>>

\* DELETE FROM albums WHERE id = ?
RemoveAlbumRow(albs, albumId) ==
    [a \in DOMAIN albs \ {albumId} |-> albs[a]]

CascadeRows_None(rows, albumId) == rows

\* album_images.album_id REFERENCES albums(id) ON DELETE CASCADE
CascadeRows(rows, albumId) ==
    SelectSeq(rows, LAMBDA r : r.albumId # albumId)

\* storage.deleteAlbum: album is what getAlbumById returned.  The response
\* is empty; body records the images that had a row in the album.
deleteAlbum(actor, albumId, album) ==
    LET check == AlbumCheck(album, actor, "delete")
    IN  IF check # "ok"
        THEN /\ last' = Response("deleteAlbum", actor, albumId, Null, 400, check)
             /\ UNCHANGED <<albums, albumImages>>
        ELSE /\ albums' = RemoveAlbumRow(albums, albumId)
             /\ albumImages' = CascadeRows(albumImages, albumId)
             /\ last' = [Response("deleteAlbum", actor, albumId, Null, 204, "")
                            EXCEPT !.body = <<{albumImages[k].imageId :
                                k \in {j \in 1..Len(albumImages) :
                                          albumImages[j].albumId = albumId}}>>]

\* DELETE /api/albums/:id
DeleteAlbum(actor, albumId) ==
    /\ IF ~isAuthenticated(actor)
       THEN /\ last' = Response("deleteAlbum", actor, Null, Null, 401, "Unauthorized")
            /\ UNCHANGED <<albums, albumImages>>
       ELSE deleteAlbum(actor, albumId, getAlbumById(albumId))
    /\ UNCHANGED <<users, sessions, hashing, inflight, issued, images, decidedAt, nextAlbumId, now>>

\* ------------------------------ PATCH /api/admin/users/:userId/role
\* storage.getUser
getUser(id) == IF id \in DOMAIN users THEN users[id] ELSE Undefined

\* The bodies updateUserRoleSchema accepts: each flag present or left out.
RoleInputs ==
    {[has |-> h, isModerator |-> m, isAdmin |-> a] :
        h \in SUBSET {"isModerator", "isAdmin"}, m \in BOOLEAN, a \in BOOLEAN}

NormalRoleInput(data) ==
    /\ "isModerator" \notin data.has => data.isModerator = FALSE
    /\ "isAdmin" \notin data.has => data.isAdmin = FALSE

updateUserRole_Overwrites(row, data) ==
    [row EXCEPT
       !.isModerator = "isModerator" \in data.has /\ data.isModerator,
       !.isAdmin = "isAdmin" \in data.has /\ data.isAdmin]

\* storage.updateUserRole: CASE WHEN ? IS NOT NULL THEN ? ELSE column END
updateUserRole(row, data) ==
    [row EXCEPT
       !.isModerator = IF "isModerator" \in data.has THEN data.isModerator ELSE @,
       !.isAdmin = IF "isAdmin" \in data.has THEN data.isAdmin ELSE @]

isAdmin_AnyUser(actor) ==
    IF ~isAuthenticated(actor) THEN 401 ELSE 200

\* isAdmin middleware: 401 without req.user, 403 unless the row that
\* storage.getUser reads now has is_admin set, otherwise next() (200 here).
isAdmin(actor) ==
    IF ~isAuthenticated(actor) THEN 401
    ELSE IF ~getUser(actor).isAdmin THEN 403
    ELSE 200

IsSelf_Never(userId, adminId) == FALSE

\* userId === adminId in the role and the ban route
IsSelf(userId, adminId) == userId = adminId

\* isAdmin middleware, then the route: the acting user is read again from
\* the users table.  The response names the target user in imageId and,
\* when the change was made, keeps the request's data in body.
UpdateUserRole(actor, userId, data) ==
    /\ IF isAdmin(actor) = 401
       THEN /\ last' = Response("updateUserRole", actor, Null, Null, 401,
                                "Authentication required")
            /\ UNCHANGED users
       ELSE IF isAdmin(actor) = 403
       THEN /\ last' = Response("updateUserRole", actor, Null, userId, 403,
                                "Admin privileges required")
            /\ UNCHANGED users
       ELSE IF IsSelf(userId, actor)
       THEN /\ last' = Response("updateUserRole", actor, Null, userId, 400,
                                "Cannot modify your own role")
            /\ UNCHANGED users
       ELSE IF getUser(userId) = Undefined
       THEN /\ last' = Response("updateUserRole", actor, Null, userId, 500,
                                "Failed to update user role")
            /\ UNCHANGED users
       ELSE /\ users' = [users EXCEPT ![userId] = updateUserRole(@, data)]
            /\ last' = [Response("updateUserRole", actor, Null, userId, 200, "")
                           EXCEPT !.body = <<data>>]
    /\ UNCHANGED <<sessions, hashing, inflight, issued, images, decidedAt, albums, albumImages, nextAlbumId, now>>

\* ------------------------------- PATCH /api/admin/users/:userId/ban
\* The bodies banUserSchema accepts: isBanned, and banReason given or not.
BanInputs ==
    {[isBanned |-> b, banReason |-> r] :
        b \in BOOLEAN, r \in Reasons \cup {Omitted}}

\* storage.banUser: UPDATE users SET is_banned = isBanned ? 1 : 0,
\* ban_reason = banReason || null, banned_by = isBanned ? adminId : null,
\* banned_at = isBanned ? now : null.  t is read only when isBanned.
banUser(row, adminId, data, t) ==
    [row EXCEPT
       !.isBanned = data.isBanned,
       !.banReason = IF data.banReason \in {Omitted, ""}
                     THEN NullText ELSE data.banReason,
       !.bannedBy = IF data.isBanned THEN adminId ELSE Null,
       !.bannedAt = IF data.isBanned THEN t ELSE NullTime]

\* isAdmin middleware, then the route.  The response names the target
\* user in imageId.
BanUser(actor, userId, data) ==
    /\ IF isAdmin(actor) = 401
       THEN /\ last' = Response("banUser", actor, Null, Null, 401,
                                "Authentication required")
            /\ UNCHANGED <<users, now>>
       ELSE IF isAdmin(actor) = 403
       THEN /\ last' = Response("banUser", actor, Null, userId, 403,
                                "Admin privileges required")
            /\ UNCHANGED <<users, now>>
       ELSE IF IsSelf(userId, actor)
       THEN /\ last' = Response("banUser", actor, Null, userId, 400,
                                "Cannot ban yourself")
            /\ UNCHANGED <<users, now>>
       ELSE IF getUser(userId) = Undefined
       THEN /\ last' = Response("banUser", actor, Null, userId, 500,
                                "Failed to update user ban status")
            /\ UNCHANGED <<users, now>>
       ELSE \E t \in IF data.isBanned THEN ClockReads ELSE {now} :
            /\ now' = t
            /\ users' = [users EXCEPT ![userId] = banUser(@, actor, data, t)]
            /\ last' = Response("banUser", actor, Null, userId, 200, "")
    /\ UNCHANGED <<sessions, hashing, inflight, issued, images, decidedAt, albums, albumImages, nextAlbumId>>

\* ------------------------------------------- e-mail verification
generateVerificationToken_KeepsFirst(row, token) ==
    IF row.verificationToken = Null
    THEN [row EXCEPT !.verificationToken = token] ELSE row

\* storage.generateVerificationToken: randomBytes(32) in hex, 256 random
\* bits, is a value that was not issued before; a token is named by its
\* serial number.  UPDATE users SET verification_token = ? WHERE id = ?
generateVerificationToken(row, token) == [row EXCEPT !.verificationToken = token]

\* POST /api/resend-verification.  The token is stored before the route
\* looks at the e-mail address; sendEmail does not throw.
ResendVerification(actor) ==
    /\ Len(issued) < MaxTokens
    /\ IF ~isAuthenticated(actor)
       THEN /\ last' = Response("resendVerification", actor, Null, Null, 401,
                                "Unauthorized")
            /\ UNCHANGED <<users, issued>>
       ELSE IF users[actor].isVerified
       THEN /\ last' = Response("resendVerification", actor, Null, Null, 400,
                                "Email already verified")
            /\ UNCHANGED <<users, issued>>
       ELSE /\ issued' = Append(issued, actor)
            /\ users' = [users EXCEPT ![actor] =
                            generateVerificationToken(@, Len(issued) + 1)]
            /\ last' = IF HasEmail(users[actor])
                       THEN Response("resendVerification", actor, Null, Null, 200,
                                     "Verification email sent")
                       ELSE Response("resendVerification", actor, Null, Null, 400,
                                     "No valid email address found for user")
    /\ UNCHANGED <<sessions, hashing, inflight, images, decidedAt, albums, albumImages,
                   nextAlbumId, now>>

\* SELECT * FROM users WHERE verification_token = ?  (NULL = ? is never
\* true): the id of the first row found, NoUser when none.
UserWithToken(token) ==
    LET found == {u \in DOMAIN users :
                    /\ users[u].verificationToken # Null
                    /\ users[u].verificationToken = token}
    IN  IF found = {} THEN NoUser
        ELSE CHOOSE u \in found : \A v \in found : u <= v

verifyUserByToken_KeepsToken(row) == [row EXCEPT !.isVerified = TRUE]

\* storage.verifyUserByToken on the row found:
\* UPDATE users SET is_verified = 1, verification_token = NULL WHERE id = ?
verifyUserByToken(row) ==
    [row EXCEPT !.isVerified = TRUE, !.verificationToken = Null]

\* GET /api/verify/:token.  The response keeps the token sent in body and
\* names the user found in imageId.
Verify(token) ==
    LET id == UserWithToken(token)
    IN  /\ IF id = NoUser
           THEN /\ last' = [Response("verify", NoUser, Null, Null, 400,
                                "Invalid or expired verification token")
                               EXCEPT !.body = <<token>>]
                /\ UNCHANGED users
           ELSE /\ users' = [users EXCEPT ![id] = verifyUserByToken(@)]
                /\ last' = [Response("verify", NoUser, Null, id, 200,
                                "Email verified successfully")
                               EXCEPT !.body = <<token>>]
        /\ UNCHANGED <<sessions, hashing, inflight, issued, images, decidedAt, albums, albumImages,
                       nextAlbumId, now>>

\* ----------------------------------------------- POST /api/register
\* Up to `await hashPassword(...)`: the body has passed insertUserSchema
\* (e-mail any string, password of six characters or more); an e-mail
\* address that is not blank is looked up.  scrypt runs on the thread
\* pool, so other requests are handled before the handler goes on; no
\* response is sent yet (status 0).
Register(email, password) ==
    /\ Cardinality(DOMAIN users) + Cardinality(hashing) < MaxUsers
    /\ IF trim(email) # "" /\ getUserByEmail(email) # NoUser
       THEN /\ last' = [Response("register", NoUser, Null, Null, 400,
                                 "Email already in use")
                           EXCEPT !.body = <<email>>]
            /\ UNCHANGED hashing
       ELSE /\ hashing' = hashing \cup {[email |-> email, password |-> password]}
            /\ last' = [Response("register", NoUser, Null, Null, 0, "")
                           EXCEPT !.body = <<email>>]
    /\ UNCHANGED <<users, sessions, inflight, issued, images, decidedAt, albums,
                   albumImages, nextAlbumId, now>>

\* users.email TEXT NOT NULL UNIQUE: the INSERT fails when a row holds the
\* same text.
EmailIsTaken(email) == \E u \in DOMAIN users : users[u].email = email

\* The rest of the handler, once the hash is there: storage.createUser
\* inserts the trimmed address as given, req.login binds the session.
\* A failed INSERT is answered 500.  The response names the new user in
\* imageId.
RegisterInsert(req) ==
    LET email == trim(req.email)
        id    == Cardinality(DOMAIN users) + 1
    IN  /\ req \in hashing
        /\ hashing' = hashing \ {req}
        /\ IF EmailIsTaken(email)
           THEN /\ last' = [Response("register", NoUser, Null, Null, 500,
                                     "Registration failed")
                               EXCEPT !.body = <<req.email>>]
                /\ UNCHANGED <<users, sessions>>
           ELSE /\ users' = users @@
                      (id :> createUser(email, hashPassword(req.password), TRUE))
                /\ sessions' = sessions \cup {id}
                /\ last' = [Response("register", NoUser, Null, id, 201, "")
                               EXCEPT !.body = <<req.email>>]
        /\ UNCHANGED <<inflight, issued, images, decidedAt, albums, albumImages,
                       nextAlbumId, now>>

\* -------------------------------------------------- POST /api/login
UserIsBanned_Never(user) == FALSE

\* LocalStrategy verify callback: if (user.isBanned)
UserIsBanned(user) == user.isBanned

\* The message of the refusal: the reason follows when ban_reason is a
\* non-empty text.
BannedMessage(user) ==
    "Your account has been banned. " \o
       (IF user.banReason \in {NullText, ""} THEN ""
        ELSE "Reason: " \o user.banReason)

\* passport.authenticate("local") up to `await comparePasswords(...)`:
\* the user is looked up and the ban is tested; the scrypt of the supplied
\* password runs on the thread pool, and other requests are handled before
\* the callback goes on with the row it read (no response yet: status 0).
\* The request carries no session; the response keeps the credentials sent
\* in body and names the user found in imageId.
LoginStart(email, password) ==
    LET id == getUserByEmail(email)
        Refuse(message) ==
            /\ last' = [Response("login", NoUser, Null, id, 401, message)
                           EXCEPT !.body = <<email, password>>]
            /\ UNCHANGED inflight
    IN  /\ Cardinality(inflight.comparing) < MaxInFlight
        /\ IF id = NoUser THEN Refuse("Incorrect email or password")
           ELSE IF UserIsBanned(users[id]) THEN Refuse(BannedMessage(users[id]))
           ELSE /\ inflight' = [inflight EXCEPT !.comparing = @ \cup
                      {[email |-> email, password |-> password, id |-> id,
                        stored |-> users[id].password]}]
                /\ last' = [Response("login", NoUser, Null, id, 0, "")
                               EXCEPT !.body = <<email, password>>]
        /\ UNCHANGED <<users, sessions, hashing, issued, images, decidedAt, albums,
                       albumImages, nextAlbumId, now>>

\* The rest of the verify callback, once the hash is there, and req.login:
\* done(null, user) with the row read before the hash, serializeUser binds
\* its id to the session.
LoginFinish(req) ==
    /\ req \in inflight.comparing
    /\ inflight' = [inflight EXCEPT !.comparing = @ \ {req}]
    /\ IF ~comparePasswords(req.password, req.stored)
       THEN /\ last' = [Response("login", NoUser, Null, req.id, 401,
                                 "Incorrect email or password")
                           EXCEPT !.body = <<req.email, req.password>>]
            /\ UNCHANGED sessions
       ELSE /\ sessions' = sessions \cup {req.id}
            /\ last' = [Response("login", NoUser, Null, req.id, 200, "")
                           EXCEPT !.body = <<req.email, req.password>>]
    /\ UNCHANGED <<users, hashing, issued, images, decidedAt, albums, albumImages,
                   nextAlbumId, now>>

\* POST /api/logout: req.logout drops the binding of the session.
Logout(actor) ==
    /\ sessions' = sessions \ {actor}
    /\ last' = Response("logout", actor, Null, Null, 200, "")
    /\ UNCHANGED <<users, hashing, inflight, issued, images, decidedAt, albums, albumImages, nextAlbumId, now>>

\* ----------------------------------------------------- specifications
\* Moderation: upload, decision, visibility and moderator grants, one
\* handler per step.
Next ==
    \/ \E actor \in Actors, failed \in SUBSET UserIds : Submit(actor, PlainUpload, failed)
    \/ \E actor \in Actors, i \in ImageIds, s \in Decisions,
          r \in Reasons \cup {Omitted}, failed \in SUBSET UserIds :
          Decide(actor, i, s, r, failed)
    \/ \E actor \in Actors, i \in ImageIds, p \in BOOLEAN :
          UpdateVisibility(actor, i, p)
    \/ \E actor \in Actors, u \in UserIds \cup {3},
          data \in {d \in RoleInputs : NormalRoleInput(d) /\ "isAdmin" \notin d.has} :
          UpdateUserRole(actor, u, data)

Spec == Init /\ [][Next]_vars

\* Albums: upload, decision and the five album handlers, one handler per
\* step.
NextAlbums ==
    \/ \E actor \in Actors : Submit(actor, PlainUpload, {})
    \/ \E actor \in Actors, i \in ImageIds, s \in Decisions :
          Decide(actor, i, s, Omitted, {})
    \/ \E actor \in Actors, title \in Titles, p \in BOOLEAN :
          CreateAlbum(actor, title, p)
    \/ \E actor \in Actors, a \in AlbumIds, i \in ImageIds :
          AddImageToAlbum(actor, a, i)
    \/ \E actor \in Actors, a \in AlbumIds, i \in ImageIds :
          RemoveImageFromAlbum(actor, a, i)
    \/ \E actor \in Actors, a \in AlbumIds,
          data \in {d \in UpdateAlbumInputs : NormalInput(d) /\ Cardinality(d.has) <= 1} :
          UpdateAlbum(actor, a, data)
    \/ \E actor \in Actors, a \in AlbumIds : DeleteAlbum(actor, a)

SpecAlbums == Init /\ [][NextAlbums]_vars

\* Album contents: the store already holds NumStored images that user 1
\* approved, one pending and one rejected image, all uploaded by user 2 at
\* instant 0, and the empty album 1 that user 2 created.
StoredImages ==
    [i \in 1..(NumStored + 2) |->
        IF i <= NumStored
        THEN updateImageStatus(createImage(2, 0), "approved", 1, Omitted, 0)
        ELSE IF i = NumStored + 1 THEN createImage(2, 0)
        ELSE updateImageStatus(createImage(2, 0), "rejected", 1, "spam", 0)]

InitCover ==
    /\ users = StoredUsers
    /\ sessions = UserIds
    /\ hashing = {}
    /\ inflight = Idle
    /\ issued = <<>>
    /\ images = StoredImages
    /\ decidedAt = [i \in 1..(NumStored + 2) |->
                       IF i = NumStored + 1 THEN NullTime ELSE 0]
    /\ albums = (1 :> createAlbum(2, "t1", TRUE))
    /\ albumImages = <<>>
    /\ nextAlbumId = 2
    /\ now = 0
    /\ last = NoRequest

\* The ids a request may name: the stored images and one id that is absent,
\* and album 1, which is absent once it was deleted.
StoredImageIds == 1..(NumStored + 3)
StoredAlbumIds == {1}

NextCover ==
    \/ \E actor \in Actors, a \in StoredAlbumIds, i \in StoredImageIds :
          AddImageToAlbum(actor, a, i)
    \/ \E actor \in Actors, a \in StoredAlbumIds, i \in StoredImageIds :
          RemoveImageFromAlbum(actor, a, i)
    \/ \E actor \in Actors, a \in StoredAlbumIds,
          data \in {d \in UpdateAlbumInputs : NormalInput(d) /\ Cardinality(d.has) <= 1} :
          UpdateAlbum(actor, a, data)
    \/ \E actor \in Actors, a \in StoredAlbumIds : DeleteAlbum(actor, a)

SpecCover == InitCover /\ [][NextCover]_vars

\* ------------------------------------------------------------- claims
\* The handler that answered in a step is the one named by last'.

\* C1: an image that is already approved or rejected is terminal: a decide
\* request on it does not succeed and leaves the whole row (status,
\* reviewedBy, rejectionReason, updatedAt) as it was.
C1_DecidedIsTerminal ==
    [][\A i \in 1..Len(images) :
          (images[i].status \in Decisions /\ last'.op = "decide")
             => /\ images'[i] = images[i]
                /\ last'.imageId = i => last'.status # 200]_vars

\* C2: the status of an image changes only in a decide request whose actor
\* is stored as moderator when the request is made; a decide request of an
\* authenticated user without the flag is answered 403 Forbidden and leaves
\* every image row unchanged, the user's own images included.
C2_OnlyModeratorsDecide ==
    [][/\ \A i \in 1..Len(images) :
             images'[i].status # images[i].status
                => /\ last'.op = "decide" /\ last'.imageId = i
                   /\ last'.actor \in UserIds
                   /\ users[last'.actor].isModerator
       /\ (/\ last'.op = "decide"
           /\ last'.actor \in UserIds
           /\ ~users[last'.actor].isModerator)
             => /\ last'.status = 403 /\ last'.message = "Forbidden"
                /\ images' = images]_vars

\* A user without the moderator flag was refused the decision of an image
\* of their own that is still pending.
C2_Witness ==
    /\ last.op = "decide" /\ last.status = 403
    /\ last.actor \in UserIds
    /\ ~users[last.actor].isModerator
    /\ \E i \in 1..Len(images) :
          images[i].userId = last.actor /\ images[i].status = "pending"

\* C10: isPublic of an image changes only in a visibility request of the
\* image's owner; the request of any other user is refused and changes no
\* image; a request that succeeds leaves status, reviewedBy and
\* rejectionReason of every image as they were.
C10_VisibilityOwnerOnly ==
    [][/\ \A i \in 1..Len(images) :
             images'[i].isPublic # images[i].isPublic
                => /\ last'.op = "visibility" /\ last'.imageId = i
                   /\ last'.status = 200
                   /\ last'.actor = images[i].userId
       /\ last'.op = "visibility"
             => /\ (/\ last'.imageId \in 1..Len(images)
                    /\ last'.actor # images[last'.imageId].userId)
                      => last'.status # 200
                /\ last'.status # 200 => images' = images
                /\ \A i \in 1..Len(images) :
                      /\ images'[i].status = images[i].status
                      /\ images'[i].reviewedBy = images[i].reviewedBy
                      /\ images'[i].rejectionReason = images[i].rejectionReason]_vars

\* The owner has just made a rejected image private: the image keeps its
\* status, reviewer and reason.
C10_Witness ==
    /\ last.op = "visibility" /\ last.status = 200
    /\ last.actor = images[last.imageId].userId
    /\ ~images[last.imageId].isPublic
    /\ images[last.imageId].status = "rejected"
    /\ images[last.imageId].reviewedBy # Null
    /\ images[last.imageId].rejectionReason = "spam"

\* The membership rows of album a holding image i, by position.
RowsOf(rows, a, i) ==
    {k \in 1..Len(rows) : rows[k].albumId = a /\ rows[k].imageId = i}

\* The membership rows of album a, by position.
RowsIn(rows, a) == {k \in 1..Len(rows) : rows[k].albumId = a}

\* C3: every membership row references a stored image whose status is
\* approved.
C3_MembersApproved ==
    \A k \in 1..Len(albumImages) :
        /\ albumImages[k].imageId \in 1..Len(images)
        /\ images[albumImages[k].imageId].status = "approved"

\* C4: an add request of the album's owner naming a pending or rejected
\* image is answered with an error and changes neither the membership rows
\* nor any album; naming an approved image that is not in the album it
\* succeeds and appends exactly one row, for that album and image.
C4_OnlyApprovedAdded ==
    [][(/\ last'.op = "addImageToAlbum"
        /\ last'.albumId \in DOMAIN albums
        /\ last'.actor = albums[last'.albumId].userId
        /\ last'.imageId \in 1..Len(images))
          => /\ images[last'.imageId].status \in {"pending", "rejected"}
                  => /\ last'.status = 400
                     /\ albumImages' = albumImages
                     /\ albums' = albums
             /\ (/\ images[last'.imageId].status = "approved"
                 /\ RowsOf(albumImages, last'.albumId, last'.imageId) = {})
                  => /\ last'.status = 200
                     /\ Len(albumImages') = Len(albumImages) + 1
                     /\ SubSeq(albumImages', 1, Len(albumImages)) = albumImages
                     /\ RowsOf(albumImages', last'.albumId, last'.imageId)
                           = {Len(albumImages')}]_vars

\* The owner of an album was refused the addition of a rejected image.
C4_Witness ==
    /\ last.op = "addImageToAlbum" /\ last.status = 400
    /\ last.albumId \in DOMAIN albums
    /\ last.actor = albums[last.albumId].userId
    /\ last.imageId \in 1..Len(images)
    /\ images[last.imageId].status = "rejected"
    /\ albumImages = <<>>

\* C5: the cover of every album is null or an image that has a membership
\* row in that album.
C5_CoverIsMember ==
    \A a \in DOMAIN albums :
        \/ albums[a].coverImageId = Null
        \/ RowsOf(albumImages, a, albums[a].coverImageId) # {}

\* C6: a remove request that succeeds leaves no row of the album for the
\* removed image; if that image was the cover, the new cover is null when
\* the album has no row left and otherwise the image of a remaining row
\* whose addedAt no remaining row exceeds; if it was not the cover, the
\* cover is unchanged.
C6_CoverAfterRemove ==
    [][(last'.op = "removeImageFromAlbum" /\ last'.status = 200)
          => LET a    == last'.albumId
                 i    == last'.imageId
                 left == RowsIn(albumImages', a)
             IN  /\ RowsOf(albumImages', a, i) = {}
                 /\ IF albums[a].coverImageId = i
                    THEN IF left = {}
                         THEN albums'[a].coverImageId = Null
                         ELSE \E k \in left :
                                /\ albums'[a].coverImageId = albumImages'[k].imageId
                                /\ \A m \in left :
                                      albumImages'[m].addedAt <= albumImages'[k].addedAt
                    ELSE albums'[a].coverImageId = albums[a].coverImageId]_vars

\* The image just removed is gone from the album, two images added at
\* different instants remain, and the cover is the one added later.
C6_Witness ==
    /\ last.op = "removeImageFromAlbum" /\ last.status = 200
    /\ last.albumId \in DOMAIN albums
    /\ RowsOf(albumImages, last.albumId, last.imageId) = {}
    /\ \E k, m \in RowsIn(albumImages, last.albumId) :
          /\ albumImages[m].addedAt < albumImages[k].addedAt
          /\ albums[last.albumId].coverImageId = albumImages[k].imageId
          /\ \A n \in RowsIn(albumImages, last.albumId) :
                albumImages[n].addedAt <= albumImages[k].addedAt

\* C7: an add request of the album's owner naming an image that has a row
\* in the album succeeds and changes neither the membership rows nor any
\* album, and after every step no album holds two rows for one image.
C7_ReAddIsNoOp ==
    [][/\ (/\ last'.op = "addImageToAlbum"
           /\ last'.albumId \in DOMAIN albums
           /\ last'.actor = albums[last'.albumId].userId
           /\ last'.imageId \in 1..Len(images)
           /\ RowsOf(albumImages, last'.albumId, last'.imageId) # {})
             => /\ last'.status = 200
                /\ albumImages' = albumImages
                /\ albums' = albums
       /\ \A k, m \in 1..Len(albumImages') :
             (/\ albumImages'[k].albumId = albumImages'[m].albumId
              /\ albumImages'[k].imageId = albumImages'[m].imageId) => k = m]_vars

\* C8: an add request that succeeds on an album without cover makes the
\* added image the cover; one that succeeds on an album with a cover leaves
\* the cover as it was.
C8_FirstAddSetsCover ==
    [][(last'.op = "addImageToAlbum" /\ last'.status = 200)
          => LET a == last'.albumId
                 i == last'.imageId
             IN  IF albums[a].coverImageId = Null
                 THEN albums'[a].coverImageId = i
                 ELSE albums'[a].coverImageId = albums[a].coverImageId]_vars

\* An image was just added as second member of an album whose cover is
\* still the first one.
C8_Witness ==
    /\ last.op = "addImageToAlbum" /\ last.status = 200
    /\ last.albumId \in DOMAIN albums
    /\ Len(albumImages) = 2
    /\ albumImages[2].albumId = last.albumId
    /\ albumImages[2].imageId = last.imageId
    /\ albumImages[1].albumId = last.albumId
    /\ albums[last.albumId].coverImageId = albumImages[1].imageId
    /\ albumImages[1].imageId # last.imageId

\* C9: an album row or the membership rows of an album change only in a
\* request of the album's owner; an update, delete, add or remove request
\* of another authenticated user is answered 400 with the permission
\* message, which differs from the message for an absent album, and changes
\* no album and no membership row.
C9_AlbumOwnerOnly ==
    [][/\ \A a \in DOMAIN albums :
             (\/ a \notin DOMAIN albums'
              \/ (a \in DOMAIN albums' /\ albums'[a] # albums[a])
              \/ {albumImages'[k] : k \in RowsIn(albumImages', a)}
                    # {albumImages[k] : k \in RowsIn(albumImages, a)})
                => /\ last'.albumId = a
                   /\ last'.actor = albums[a].userId
       /\ (/\ last'.op \in {"updateAlbum", "deleteAlbum",
                            "addImageToAlbum", "removeImageFromAlbum"}
           /\ last'.actor \in UserIds)
             => /\ (/\ last'.albumId \in DOMAIN albums
                    /\ last'.actor # albums[last'.albumId].userId)
                      => /\ last'.status = 400
                         /\ last'.message \in
                              {"Error: You do not have permission to update this album",
                               "Error: You do not have permission to delete this album"}
                         /\ albums' = albums
                         /\ albumImages' = albumImages
                /\ last'.albumId \notin DOMAIN albums
                      => /\ last'.status = 400
                         /\ last'.message = "Error: Album not found"
                         /\ albums' = albums
                         /\ albumImages' = albumImages]_vars

\* The administrator, who is also moderator, was refused the deletion of
\* another user's album, which still holds an image.
C9_Witness ==
    /\ last.op = "deleteAlbum" /\ last.status = 400
    /\ last.message = "Error: You do not have permission to delete this album"
    /\ last.actor \in UserIds
    /\ users[last.actor].isAdmin /\ users[last.actor].isModerator
    /\ last.albumId \in DOMAIN albums
    /\ albums[last.albumId].userId # last.actor
    /\ RowsIn(albumImages, last.albumId) # {}

\* Administration: role changes and bans by the users that are logged in,
\* one handler per step.
NextAdmin ==
    \/ \E actor \in Actors, u \in UserIds \cup {3},
          data \in {d \in RoleInputs : NormalRoleInput(d)} :
          UpdateUserRole(actor, u, data)
    \/ \E actor \in Actors, u \in UserIds \cup {3}, data \in BanInputs :
          BanUser(actor, u, data)

SpecAdmin == Init /\ [][NextAdmin]_vars

\* C11: a role or ban request that names the acting user as its target
\* does not succeed, and no role or ban request changes the row of the user
\* who sent it: isModerator, isAdmin, isBanned, banReason, bannedBy and
\* bannedAt of the actor are as before.
C11_NoSelfRoleOrBan ==
    [][(/\ last'.op \in {"updateUserRole", "banUser"}
        /\ last'.actor \in DOMAIN users)
          => /\ last'.imageId = last'.actor => last'.status \notin {200, 201, 204}
             /\ users'[last'.actor].isModerator = users[last'.actor].isModerator
             /\ users'[last'.actor].isAdmin = users[last'.actor].isAdmin
             /\ users'[last'.actor].isBanned = users[last'.actor].isBanned
             /\ users'[last'.actor].banReason = users[last'.actor].banReason
             /\ users'[last'.actor].bannedBy = users[last'.actor].bannedBy
             /\ users'[last'.actor].bannedAt = users[last'.actor].bannedAt]_vars

\* An admin asked to ban their own account and was refused.
C11_Witness ==
    /\ last.op = "banUser" /\ last.status = 400
    /\ last.message = "Cannot ban yourself"
    /\ last.actor \in DOMAIN users
    /\ last.imageId = last.actor
    /\ users[last.actor].isAdmin
    /\ ~users[last.actor].isBanned

\* C12: a user row changes only in a role or ban request whose sender has
\* isAdmin set in the users table when the request is made; the role or
\* ban request of a logged-in user without the flag is answered 403 and
\* changes no user row.
C12_OnlyAdminsChangeUsers ==
    [][/\ users' # users
          => /\ last'.op \in {"updateUserRole", "banUser"}
             /\ last'.actor \in DOMAIN users
             /\ users[last'.actor].isAdmin
       /\ (/\ last'.op \in {"updateUserRole", "banUser"}
           /\ last'.actor \in DOMAIN users
           /\ ~users[last'.actor].isAdmin)
             => /\ last'.status = 403
                /\ users' = users]_vars

\* User 1, the default admin, has lost the admin flag and was refused a
\* ban request on that ground.
C12_Witness ==
    /\ last.op = "banUser" /\ last.status = 403
    /\ last.actor = 1
    /\ ~users[1].isAdmin
    /\ users[2].isAdmin

\* C17: a user who is not banned has no ban reason, no banning admin and
\* no ban time; a banned user has the banning admin and the ban time
\* stored.
C17_UnbannedHasNoBanFields ==
    \A u \in DOMAIN users :
        IF users[u].isBanned
        THEN users[u].bannedBy # Null /\ users[u].bannedAt # NullTime
        ELSE /\ users[u].banReason = NullText
             /\ users[u].bannedBy = Null
             /\ users[u].bannedAt = NullTime

\* Login: only the default admin is logged in at the start; logins with
\* the stored and with wrong credentials, each in two steps around its
\* password hash, logouts, and bans by whoever is logged in.
InitLogin ==
    /\ users = StoredUsers
    /\ sessions = {1}
    /\ hashing = {}
    /\ inflight = Idle
    /\ issued = <<>>
    /\ images = <<>>
    /\ decidedAt = <<>>
    /\ albums = <<>>
    /\ albumImages = <<>>
    /\ nextAlbumId = 1
    /\ now = 0
    /\ last = NoRequest

LoginEmails == {"admin@example.com", "bob@x.io", "Bob@x.io", "nobody@x.io"}
LoginPasswords == {"password123", "bobsecret"}

NextLogin ==
    \/ \E email \in LoginEmails, password \in LoginPasswords :
          LoginStart(email, password)
    \/ \E req \in inflight.comparing : LoginFinish(req)
    \/ \E actor \in sessions \cup {NoUser} : Logout(actor)
    \/ \E actor \in sessions \cup {NoUser}, u \in UserIds, data \in BanInputs :
          BanUser(actor, u, data)

SpecLogin == InitLogin /\ [][NextLogin]_vars

\* C13: a login that sends the stored e-mail address and the password of
\* a user who is banned when the request arrives is answered 401, binds no
\* session, and its message is the ban message, ending with the stored
\* reason when there is one.  (A step that takes no login out of
\* inflight.comparing is the arrival of the request.)
C13_BannedCannotLogin ==
    [][\A u \in DOMAIN users :
          (/\ last'.op = "login"
           /\ inflight.comparing \subseteq inflight'.comparing
           /\ users[u].isBanned
           /\ last'.body[1] = users[u].email
           /\ comparePasswords(last'.body[2], users[u].password))
             => /\ last'.status = 401
                /\ sessions' = sessions
                /\ last'.message =
                      IF users[u].banReason = NullText
                      THEN "Your account has been banned. "
                      ELSE "Your account has been banned. Reason: "
                              \o users[u].banReason]_vars

\* User 2, banned for spam and without session, sent the right e-mail
\* address and password and was refused with the reason.
C13_Witness ==
    /\ last.op = "login" /\ last.status = 401
    /\ last.body = <<"bob@x.io", "bobsecret">>
    /\ users[2].isBanned /\ users[2].banReason = "spam"
    /\ last.message = "Your account has been banned. Reason: spam"
    /\ 2 \notin sessions

\* C19: an upload by a logged-in user is answered 201 and appends the
\* pending image of that user, and a decision by a moderator on a stored
\* image is answered 200 and stores the status decided and the moderator,
\* whichever notifications could not be delivered.
C19_NotificationNeverFails ==
    [][/\ (last'.op = "submit" /\ last'.actor \in sessions)
             => /\ last'.status = 201
                /\ Len(images') = Len(images) + 1
                /\ SubSeq(images', 1, Len(images)) = images
                /\ images'[Len(images')].status = "pending"
                /\ images'[Len(images')].userId = last'.actor
       /\ (/\ last'.op = "decide" /\ last'.actor \in sessions
           /\ users[last'.actor].isModerator
           /\ last'.imageId \in 1..Len(images))
             => /\ last'.status = 200
                /\ images'[last'.imageId].status = last'.message
                /\ images'[last'.imageId].reviewedBy = last'.actor]_vars

\* An image was rejected and the request answered 200 although the mail
\* to its owner could not be delivered.
C19_Witness ==
    /\ last.op = "decide" /\ last.status = 200
    /\ last.failed # {}
    /\ images[last.imageId].userId \in last.failed
    /\ images[last.imageId].status = "rejected"

\* Sessions: both users logged in when user 1 was moderator and admin and
\* user 2 neither, and never log in again; user 2 has one image pending.
\* Role changes, bans and decisions are made through those sessions.
InitSession ==
    /\ users = StoredUsers
    /\ sessions = UserIds
    /\ hashing = {}
    /\ inflight = Idle
    /\ issued = <<>>
    /\ images = <<createImage(2, 0)>>
    /\ decidedAt = <<NullTime>>
    /\ albums = <<>>
    /\ albumImages = <<>>
    /\ nextAlbumId = 1
    /\ now = 0
    /\ last = NoRequest

NextSession ==
    \/ \E actor \in Actors, u \in UserIds,
          data \in {d \in RoleInputs : NormalRoleInput(d)} :
          UpdateUserRole(actor, u, data)
    \/ \E actor \in Actors, u \in UserIds,
          data \in {d \in BanInputs : d.banReason = Omitted} :
          BanUser(actor, u, data)
    \/ \E actor \in Actors, s \in Decisions : Decide(actor, 1, s, Omitted, {})

SpecSession == InitSession /\ [][NextSession]_vars

\* C14: a decide request sent through an established session is refused
\* with 403 exactly when the users table, as it is when the request
\* arrives, does not flag the session's user as moderator; a role or ban
\* request is refused with 403 exactly when the table does not flag the
\* user as admin.
C14_RolesReadPerRequest ==
    [][/\ (last'.op = "decide" /\ last'.actor \in sessions)
             => (last'.status = 403 <=> ~users[last'.actor].isModerator)
       /\ (last'.op \in {"updateUserRole", "banUser"} /\ last'.actor \in sessions)
             => (last'.status = 403 <=> ~users[last'.actor].isAdmin)]_vars

\* User 1 logged in as moderator, lost the flag since, and the decide
\* request of that session was refused; user 2, who logged in without any
\* role, is admin now and has decided the image.
C14_Witness ==
    /\ last.op = "decide" /\ last.status = 403 /\ last.actor = 1
    /\ 1 \in sessions
    /\ ~users[1].isModerator
    /\ users[2].isAdmin
    /\ images[1].reviewedBy = 2

\* Verification: users 2 and 3 are rows the database file already held,
\* stored with is_verified = 0 (the column default) and no token; the
\* e-mail address of user 3 is one blank, which the clean-up of
\* initializeSchemaSync (DELETE ... WHERE email = '') keeps.  All three
\* users are logged in.
InitVerify ==
    /\ users = (1 :> DefaultAdmin)
            @@ (2 :> createUser("bob@x.io", hashPassword("bobsecret"), FALSE))
            @@ (3 :> createUser(" ", hashPassword("carolsecret"), FALSE))
    /\ sessions = 1..3
    /\ hashing = {}
    /\ inflight = Idle
    /\ issued = <<>>
    /\ images = <<>>
    /\ decidedAt = <<>>
    /\ albums = <<>>
    /\ albumImages = <<>>
    /\ nextAlbumId = 1
    /\ now = 0
    /\ last = NoRequest

NextVerify ==
    \/ \E actor \in sessions \cup {NoUser} : ResendVerification(actor)
    \/ \E token \in 1..(MaxTokens + 1) : Verify(token)

SpecVerify == InitVerify /\ [][NextVerify]_vars

\* C15: a request without authenticated user to a moderator-, owner- or
\* admin-gated handler is answered 401, not the 403 an authenticated user
\* without the role gets.
C15_UnauthenticatedIs401 ==
    [][(/\ last'.op \in {"decide", "moderationStats", "visibility",
                         "updateUserRole", "banUser",
                         "updateAlbum", "deleteAlbum", "addImageToAlbum",
                         "removeImageFromAlbum"}
        /\ last'.actor \notin sessions)
          => last'.status = 401 /\ last'.status # 403]_vars

\* C16: a verify request whose token is stored on a user's row answers 200,
\* sets that user verified and clears the token, and changes no other row;
\* a verify request whose token is on no row answers 400 and changes no
\* user; and a token stored on a row in a step is a token that was never
\* issued before, so a token that was consumed is on no row ever after.
C16_TokenSingleUse ==
    [][/\ last'.op = "verify"
          => LET token  == last'.body[1]
                 owners == {u \in DOMAIN users : users[u].verificationToken = token}
             IN  IF owners # {}
                 THEN /\ last'.status = 200
                      /\ \E u \in owners :
                            /\ users'[u].isVerified
                            /\ users'[u].verificationToken = Null
                            /\ \A v \in DOMAIN users \ {u} : users'[v] = users[v]
                 ELSE /\ last'.status = 400
                      /\ last'.message = "Invalid or expired verification token"
                      /\ users' = users
       /\ \A u \in DOMAIN users :
             users'[u].verificationToken # users[u].verificationToken
                => \/ users'[u].verificationToken = Null
                   \/ users'[u].verificationToken > Len(issued)]_vars

\* Token 1, the only token issued so far, verified user 2; the token was
\* sent again and refused.
C16_Witness ==
    /\ last.op = "verify" /\ last.status = 400
    /\ last.body = <<1>>
    /\ Len(issued) = 1
    /\ users[2].isVerified
    /\ users[2].verificationToken = Null

\* Registration: requests for addresses that are stored, that differ from
\* a stored one or from each other in case only, and for a blank address;
\* a request waits for its password hash while others are handled, logins
\* and logouts among them.
RegisterEmails == {"bob@x.io", "Bob@x.io", "carol@x.io", "Carol@x.io", " "}

NextRegister ==
    \/ \E email \in RegisterEmails : Register(email, "secret1")
    \/ \E req \in hashing : RegisterInsert(req)
    \/ \E email \in RegisterEmails, password \in {"secret1", "bobsecret"} :
          LoginStart(email, password)
    \/ \E req \in inflight.comparing : LoginFinish(req)
    \/ \E actor \in sessions \cup {NoUser} : Logout(actor)

SpecRegister == InitLogin /\ [][NextRegister]_vars

\* C18: no two users have e-mail addresses that are equal once trimmed
\* and lower-cased.
C18_EmailsUniqueIgnoringCase ==
    \A u, v \in DOMAIN users :
        toLowerCase(trim(users[u].email)) = toLowerCase(trim(users[v].email))
           => u = v

\* Statistics: uploads, decisions, visibility changes and statistics
\* requests over the days of the clock.
NextStats ==
    \/ \E actor \in Actors : Submit(actor, PlainUpload, {})
    \/ \E actor \in Actors, i \in ImageIds, s \in Decisions :
          Decide(actor, i, s, Omitted, {})
    \/ \E actor \in Actors, i \in ImageIds, p \in BOOLEAN :
          UpdateVisibility(actor, i, p)
    \/ \E actor \in Actors : GetModerationStats(actor)

SpecStats == Init /\ [][NextStats]_vars

\* C20: the statistics a moderator is sent are the number of images that
\* are pending, the number that are approved and were last decided on the
\* day of the request, and the number that are rejected and were last
\* decided on that day.
C20_StatsCountTodaysDecisions ==
    [][(last'.op = "moderationStats" /\ last'.status = 200)
          => LET today == now' \div TicksPerDay
                 DecidedToday(st) ==
                     {i \in 1..Len(images) :
                         /\ images[i].status = st
                         /\ decidedAt[i] # NullTime
                         /\ decidedAt[i] \div TicksPerDay = today}
             IN  last'.body =
                    <<Cardinality({i \in 1..Len(images) : images[i].status = "pending"}),
                      Cardinality(DecidedToday("approved")),
                      Cardinality(DecidedToday("rejected"))>>]_vars

\* ------------------------------------------------------ read handlers
\* storage.getApprovedImages: SELECT ... FROM images i JOIN users u
\*   WHERE i.status = 'approved'   (the ids of the rows returned)
getApprovedImages ==
    {i \in 1..Len(images) :
        images[i].status = "approved" /\ images[i].userId \in DOMAIN users}

\* storage.getPublicAlbums: SELECT ... FROM albums a JOIN users u
\*   WHERE a.is_public = 1
getPublicAlbums ==
    {a \in DOMAIN albums :
        albums[a].isPublic /\ albums[a].userId \in DOMAIN users}

\* The image list of storage.getAlbumById: album_images JOIN images JOIN
\* users WHERE ai.album_id = ? AND i.status = 'approved'
getAlbumImages(id) ==
    {albumImages[k].imageId : k \in {j \in 1..Len(albumImages) :
        /\ albumImages[j].albumId = id
        /\ albumImages[j].imageId \in 1..Len(images)
        /\ images[albumImages[j].imageId].status = "approved"
        /\ images[albumImages[j].imageId].userId \in DOMAIN users}}

\* What a read handler sent: the ids of the image rows and of the album
\* rows in the response body.
Sent(response, imageIds, albumIds) ==
    [response EXCEPT !.body = <<imageIds, albumIds>>]

\* The variables no read handler writes.
store == <<users, sessions, hashing, inflight, issued, images, decidedAt,
           albums, albumImages, nextAlbumId, now>>

\* GET /api/images: the gallery, open to every caller.
GetImages(actor) ==
    /\ last' = Sent(Response("getImages", actor, Null, Null, 200, ""),
                    getApprovedImages, {})
    /\ UNCHANGED store

\* GET /api/public-albums and its alias GET /api/albums/public.
GetPublicAlbums(actor) ==
    /\ last' = Sent(Response("getPublicAlbums", actor, Null, Null, 200, ""),
                    {}, getPublicAlbums)
    /\ UNCHANGED store

\* GET /api/albums/:id: 404 without the row, 403 for a private album unless
\* the caller is authenticated as its owner, otherwise the album and the
\* approved images in it.
GetAlbum(actor, albumId) ==
    LET album == getAlbumById(albumId)
    IN  /\ last' =
             IF album = Undefined
             THEN Sent(Response("getAlbum", actor, albumId, Null, 404,
                                "Album not found"), {}, {})
             ELSE IF ~album.isPublic
                     /\ (~isAuthenticated(actor) \/ actor # album.userId)
             THEN Sent(Response("getAlbum", actor, albumId, Null, 403,
                                "Access denied"), {}, {})
             ELSE Sent(Response("getAlbum", actor, albumId, Null, 200, ""),
                       getAlbumImages(albumId), {albumId})
        /\ UNCHANGED store

\* Reading: uploads, decisions, visibility changes, albums that are
\* created, filled and made private or public, and the three read
\* handlers, called with and without a session.
NextRead ==
    \/ \E actor \in UserIds : Submit(actor, PlainUpload, {})
    \/ \E actor \in UserIds, i \in ImageIds, s \in Decisions :
          Decide(actor, i, s, Omitted, {})
    \/ \E actor \in UserIds, i \in ImageIds, p \in BOOLEAN :
          UpdateVisibility(actor, i, p)
    \/ \E actor \in UserIds, p \in BOOLEAN : CreateAlbum(actor, "t1", p)
    \/ \E actor \in UserIds, a \in AlbumIds, i \in ImageIds :
          AddImageToAlbum(actor, a, i)
    \/ \E actor \in UserIds, a \in AlbumIds,
          data \in {d \in UpdateAlbumInputs : NormalInput(d) /\ d.has = {"isPublic"}} :
          UpdateAlbum(actor, a, data)
    \/ \E actor \in Actors : GetImages(actor)
    \/ \E actor \in Actors : GetPublicAlbums(actor)
    \/ \E actor \in Actors, a \in AlbumIds : GetAlbum(actor, a)

SpecRead == Init /\ [][NextRead]_vars

\* C21: every image and every album in the body of a gallery listing, a
\* public-album listing or an album-by-id response is public or is owned by
\* the authenticated user the response went to.
C21_PrivateOnlyToOwner ==
    last.op \in {"getImages", "getPublicAlbums", "getAlbum"}
       => /\ \A i \in last.body[1] :
                \/ images[i].isPublic
                \/ (last.actor \in sessions /\ last.actor = images[i].userId)
          /\ \A a \in last.body[2] :
                \/ albums[a].isPublic
                \/ (last.actor \in sessions /\ last.actor = albums[a].userId)

NextUpload ==
    \/ \E actor \in Actors, body \in UploadBodies : Submit(actor, body, {})
    \/ \E actor \in Actors, i \in ImageIds, s \in Decisions :
          Decide(actor, i, s, "spam", {})
    \/ \E actor \in Actors, i \in ImageIds, p \in BOOLEAN :
          UpdateVisibility(actor, i, p)

SpecUpload == Init /\ [][NextUpload]_vars

\* C23: an upload that is answered 201 appends exactly one image row, and
\* that row is pending, owned by the user who uploaded, public, without
\* reviewer and without rejection reason, whichever keys the body
\* carried; no other step appends an image row.
C23_SubmitStartsPending ==
    [][/\ (last'.op = "submit" /\ last'.status = 201)
             => /\ Len(images') = Len(images) + 1
                /\ SubSeq(images', 1, Len(images)) = images
                /\ last'.imageId = Len(images')
                /\ images'[Len(images')].status = "pending"
                /\ images'[Len(images')].userId = last'.actor
                /\ images'[Len(images')].isPublic = TRUE
                /\ images'[Len(images')].reviewedBy = Null
                /\ images'[Len(images')].rejectionReason = NullText
       /\ Len(images') # Len(images)
             => last'.op = "submit" /\ last'.status = 201]_vars

\* User 2 uploaded with a body that carried status, userId, isPublic,
\* reviewedBy and rejectionReason, and the row stored is pending, public
\* and owned by user 2.
C23_Witness ==
    /\ last.op = "submit" /\ last.status = 201 /\ last.actor = 2
    /\ last.body[1] = UploadKeys
    /\ last.body[2] \cap UploadKeys = {}
    /\ images[last.imageId].status = "pending"
    /\ images[last.imageId].userId = 2
    /\ images[last.imageId].isPublic

\* C24: no image was decided by its own owner: an image with a reviewer
\* has a reviewer other than the user who uploaded it.
C24_ReviewerIsNotOwner ==
    \A i \in 1..Len(images) :
        images[i].reviewedBy # Null => images[i].reviewedBy # images[i].userId

\* C25: a verify request with a token issued for a user who was issued a
\* later token is answered 400 with the invalid-token message and changes
\* no user; a verify request with the last token issued for a user who is
\* not verified yet is answered 200 and verifies that user; and in every
\* state at most one of the tokens issued for a user is stored on a row.
C25_LaterTokenReplacesEarlier ==
    [][/\ (last'.op = "verify" /\ last'.body[1] \in 1..Len(issued))
             => LET token == last'.body[1]
                    user  == issued[token]
                    later == {k \in (token + 1)..Len(issued) : issued[k] = user}
                IN  /\ later # {}
                       => /\ last'.status = 400
                          /\ last'.message = "Invalid or expired verification token"
                          /\ users' = users
                    /\ (later = {} /\ ~users[user].isVerified)
                       => /\ last'.status = 200
                          /\ last'.imageId = user
                          /\ users'[user].isVerified
       /\ \A u \in DOMAIN users' :
             Cardinality({k \in 1..Len(issued') :
                            /\ issued'[k] = u
                            /\ \E v \in DOMAIN users' :
                                  users'[v].verificationToken = k}) <= 1]_vars

\* User 2 was issued token 1 and then token 2; token 1 was sent and
\* refused, and token 2 is still stored for user 2, who is not verified.
C25_Witness ==
    /\ last.op = "verify" /\ last.status = 400
    /\ last.body = <<1>>
    /\ Len(issued) >= 2 /\ issued[1] = 2 /\ issued[2] = 2
    /\ users[2].verificationToken = 2
    /\ ~users[2].isVerified

\* C26: after a delete request of the album's owner that succeeds the
\* album row is gone and no membership row names the album, the other
\* albums and their rows are as before, and every image row, those of the
\* album's members included, is unchanged.
C26_DeleteCascades ==
    [][(last'.op = "deleteAlbum" /\ last'.status = 204)
          => LET a == last'.albumId
             IN  /\ a \in DOMAIN albums
                 /\ last'.actor = albums[a].userId
                 /\ a \notin DOMAIN albums'
                 /\ \A k \in 1..Len(albumImages') : albumImages'[k].albumId # a
                 /\ albumImages' = SelectSeq(albumImages, LAMBDA r : r.albumId # a)
                 /\ \A b \in DOMAIN albums \ {a} :
                       b \in DOMAIN albums' /\ albums'[b] = albums[b]
                 /\ images' = images
                 /\ \A k \in 1..Len(albumImages) :
                       albumImages[k].albumId = a
                          => /\ albumImages[k].imageId \in 1..Len(images')
                             /\ images'[albumImages[k].imageId]
                                   = images[albumImages[k].imageId]]_vars

\* The owner deleted an album that held two images: the album and its rows
\* are gone, both images are still stored as approved images of the owner.
C26_Witness ==
    /\ last.op = "deleteAlbum" /\ last.status = 204
    /\ last.albumId \notin DOMAIN albums
    /\ albumImages = <<>>
    /\ Cardinality(last.body[1]) = 2
    /\ \A i \in last.body[1] :
          /\ i \in 1..Len(images)
          /\ images[i].status = "approved"
          /\ images[i].userId = last.actor

\* C27: a request of a user whose row has isBanned set, sent through a
\* session bound before the ban, is refused and changes nothing: this
\* covers uploads, decisions, role and ban changes and album mutations.
C27_BannedSessionRefused ==
    [][(/\ last'.op \in {"submit", "decide", "updateUserRole", "banUser",
                         "createAlbum", "updateAlbum", "deleteAlbum",
                         "addImageToAlbum", "removeImageFromAlbum"}
        /\ last'.actor \in sessions
        /\ last'.actor \in DOMAIN users
        /\ users[last'.actor].isBanned)
          => /\ last'.status \notin {200, 201, 204}
             /\ users' = users
             /\ images' = images
             /\ albums' = albums
             /\ albumImages' = albumImages]_vars

\* --------------------- role requests, step by step through the server
\* A role request read from its socket.  asAdmin records whether the users
\* table flagged the sender as admin when the request arrived.
SendRoleRequest(actor, userId, data) ==
    /\ Cardinality(inflight.received) < MaxInFlight
    /\ inflight' = [inflight EXCEPT !.received = @ \cup
          {[actor |-> actor, userId |-> userId, data |-> data,
            asAdmin |-> isAuthenticated(actor) /\ users[actor].isAdmin]}]
    /\ UNCHANGED <<users, sessions, hashing, issued, images, decidedAt, albums,
                   albumImages, nextAlbumId, now, last>>

MayStart_Anytime == TRUE

\* The event loop takes up the next request when the microtask queue is
\* empty.  storage.getUser and storage.updateUserRole run better-sqlite3
\* statements synchronously and return settled promises, so from the
\* isAdmin middleware to the response a role request goes on in microtasks
\* only: no other request starts while one has been checked and not
\* answered.
MayStart == inflight.checked = {}

\* The isAdmin middleware on a received request; next() hands a request
\* that passed on to the route (no response yet: status 0).  The response
\* keeps the request in body.
RoleCheck(req) ==
    /\ req \in inflight.received
    /\ MayStart
    /\ IF isAdmin(req.actor) = 401
       THEN /\ last' = [Response("updateUserRole", req.actor, Null, Null, 401,
                                 "Authentication required") EXCEPT !.body = <<req>>]
            /\ inflight' = [inflight EXCEPT !.received = @ \ {req}]
       ELSE IF isAdmin(req.actor) = 403
       THEN /\ last' = [Response("updateUserRole", req.actor, Null, req.userId, 403,
                                 "Admin privileges required") EXCEPT !.body = <<req>>]
            /\ inflight' = [inflight EXCEPT !.received = @ \ {req}]
       ELSE /\ last' = [Response("updateUserRole", req.actor, Null, req.userId, 0, "")
                           EXCEPT !.body = <<req>>]
            /\ inflight' = [inflight EXCEPT !.received = @ \ {req},
                                            !.checked = @ \cup {req}]
    /\ UNCHANGED <<users, sessions, hashing, issued, images, decidedAt, albums,
                   albumImages, nextAlbumId, now>>

\* The route of a request that passed isAdmin: the self check, then
\* storage.updateUserRole.
RoleUpdate(req) ==
    /\ req \in inflight.checked
    /\ inflight' = [inflight EXCEPT !.checked = @ \ {req}]
    /\ IF IsSelf(req.userId, req.actor)
       THEN /\ last' = [Response("updateUserRole", req.actor, Null, req.userId, 400,
                                 "Cannot modify your own role") EXCEPT !.body = <<req>>]
            /\ UNCHANGED users
       ELSE IF getUser(req.userId) = Undefined
       THEN /\ last' = [Response("updateUserRole", req.actor, Null, req.userId, 500,
                                 "Failed to update user role") EXCEPT !.body = <<req>>]
            /\ UNCHANGED users
       ELSE /\ users' = [users EXCEPT ![req.userId] = updateUserRole(@, req.data)]
            /\ last' = [Response("updateUserRole", req.actor, Null, req.userId, 200, "")
                           EXCEPT !.body = <<req>>]
    /\ UNCHANGED <<sessions, hashing, issued, images, decidedAt, albums,
                   albumImages, nextAlbumId, now>>

\* Role requests of the logged-in users and of a caller without session,
\* granting or withdrawing the admin flag, several of them in flight.
NextRoles ==
    \/ \E actor \in Actors, u \in UserIds \cup {3},
          data \in {d \in RoleInputs : NormalRoleInput(d) /\ d.has = {"isAdmin"}} :
          SendRoleRequest(actor, u, data)
    \/ \E req \in inflight.received : RoleCheck(req)
    \/ \E req \in inflight.checked : RoleUpdate(req)

SpecRoles == Init /\ [][NextRoles]_vars

\* C28: some user has isAdmin set in every reachable state, whatever role
\* requests the admins send and in whatever order the server takes them
\* up.
C28_SomeAdminRemains ==
    \E u \in DOMAIN users : users[u].isAdmin

\* Users 1 and 2 were both admin and each sent a request withdrawing the
\* admin flag of the other; the request of user 1 was carried out, the
\* request user 2 had sent as admin was then refused, and user 1 is still
\* admin.
C28_Witness ==
    /\ last.op = "updateUserRole" /\ last.status = 403 /\ last.actor = 2
    /\ last.body[1].asAdmin
    /\ last.body[1].userId = 1
    /\ ~last.body[1].data.isAdmin
    /\ users[1].isAdmin /\ ~users[2].isAdmin

\* C29: when a login is answered 200 and its session is bound, the users
\* table does not flag that user as banned, and every user a step adds to
\* the sessions is not banned after the step.
C29_NoLoginWhileBanned ==
    [][/\ (last'.op = "login" /\ last'.status = 200)
             => ~users'[last'.imageId].isBanned
       /\ \A u \in sessions' \ sessions :
             u \in DOMAIN users' => ~users'[u].isBanned]_vars

\* Role changes on rows of every kind: starting from the users of
\* InitVerify, role requests of users 1 and 2 with each flag present or
\* left out, bans and unbans of user 2 by user 1, and verification tokens
\* issued to user 2.
NextFrame ==
    \/ \E actor \in 1..2, u \in 1..3,
          data \in {d \in RoleInputs : NormalRoleInput(d)} :
          UpdateUserRole(actor, u, data)
    \/ \E b \in BOOLEAN :
          BanUser(1, 2, [isBanned |-> b, banReason |-> "spam"])
    \/ ResendVerification(2)

SpecFrame == InitVerify /\ [][NextFrame]_vars

\* C30: a role request that is carried out sets, on the target's row, the
\* flags its body gives and leaves a flag the body leaves out as it was; a
\* body with neither flag changes no row; the ban fields, the verification
\* fields, the e-mail address and the password of the target and the row
\* of every other user are unchanged.
C30_RoleChangeFrame ==
    [][(last'.op = "updateUserRole" /\ last'.status = 200)
          => LET u    == last'.imageId
                 data == last'.body[1]
             IN  /\ DOMAIN users' = DOMAIN users
                 /\ users'[u].isModerator =
                       IF "isModerator" \in data.has THEN data.isModerator
                       ELSE users[u].isModerator
                 /\ users'[u].isAdmin =
                       IF "isAdmin" \in data.has THEN data.isAdmin
                       ELSE users[u].isAdmin
                 /\ data.has = {} => users' = users
                 /\ users'[u].isBanned = users[u].isBanned
                 /\ users'[u].banReason = users[u].banReason
                 /\ users'[u].bannedBy = users[u].bannedBy
                 /\ users'[u].bannedAt = users[u].bannedAt
                 /\ users'[u].isVerified = users[u].isVerified
                 /\ users'[u].verificationToken = users[u].verificationToken
                 /\ users'[u].email = users[u].email
                 /\ users'[u].password = users[u].password
                 /\ \A v \in DOMAIN users \ {u} : users'[v] = users[v]]_vars

\* A request that gave only isModerator was carried out on a user who is
\* admin, banned for spam, unverified and holds a verification token: the
\* user is moderator now and all the rest of the row is still there.
C30_Witness ==
    /\ last.op = "updateUserRole" /\ last.status = 200
    /\ last.body[1].has = {"isModerator"} /\ last.body[1].isModerator
    /\ LET row == users[last.imageId]
       IN  /\ row.isModerator /\ row.isAdmin
           /\ row.isBanned /\ row.banReason = "spam" /\ row.bannedBy # Null
           /\ ~row.isVerified /\ row.verificationToken # Null

====
